---- MODULE Spec2Model ----
(***************************************************************************)
(* Model of the Word task-pane redactor: the task pane's click handlers,   *)
(* the redaction workflow (enableTrackChanges, addConfidentialHeader,      *)
(* formatAndRedactDocument, rejectAllChanges) and the Word request         *)
(* context it drives.  Commands the workflow issues against the request    *)
(* context are queued and take effect, in order, at the next               *)
(* context.sync(); every await of the code is a step of the model.         *)
(***************************************************************************)
EXTENDS Integers, Sequences, FiniteSets, TLC

(***************************************************************************)
(* Bounds                                                                  *)
(***************************************************************************)
MaxBodyLen == 2      \* longest initial body text, in characters
MaxPii == 2          \* longest list the classifier returns
MaxClicks == 2       \* button clicks per behaviour
MaxPending == 0      \* redactions still in the text when the user redacts again
NumRuns == 2         \* Word.run invocations that can be in flight together
MaxRawLen == 4       \* longest reply of the upstream model, in tokens

Runs == 1..NumRuns

(***************************************************************************)
(* Text: a string is a sequence of one-character strings.                  *)
(***************************************************************************)
BodyChars == {"x", "d", " "}
Whitespace == {" "}

\* route.ts:245 / word-interaction.ts:132   the literal "[REDACTED]"
REDACTED == <<"[", "R", "E", "D", "A", "C", "T", "E", "D", "]">>
HighlightColor == "#000000"
FontColor == "#FFFFFF"
MARKER == "CONFIDENTIAL DOCUMENT"

\* what matchCase: false compares: characters folded to lower case
Lower(c) ==
    CASE c = "X" -> "x"
      [] c = "D" -> "d"
      [] c = "R" -> "r"
      [] c = "E" -> "e"
      [] c = "A" -> "a"
      [] c = "C" -> "c"
      [] c = "T" -> "t"
      [] OTHER -> c

LowerText(t) == [i \in 1..Len(t) |-> Lower(t[i])]

\* String.prototype.trim(): drop leading and trailing white space
RECURSIVE TrimStart(_)
TrimStart(t) ==
    IF t = <<>> THEN <<>>
    ELSE IF Head(t) \in Whitespace THEN TrimStart(Tail(t)) ELSE t

RECURSIVE TrimEnd(_)
TrimEnd(t) ==
    IF t = <<>> THEN <<>>
    ELSE IF t[Len(t)] \in Whitespace THEN TrimEnd(SubSeq(t, 1, Len(t) - 1)) ELSE t

Trim(t) == TrimEnd(TrimStart(t))

\* !item.trim() / !fullText : the trimmed string is empty
IsBlank(t) == Trim(t) = <<>>

\* does pattern p occur in text t at position i (1-based), case folded
MatchAt(t, p, i) ==
    /\ i >= 1
    /\ i + Len(p) - 1 <= Len(t)
    /\ \A j \in 1..Len(p) : Lower(t[i + j - 1]) = Lower(p[j])

Occurs(t, p) == Len(p) > 0 /\ \E i \in 1..Len(t) : MatchAt(t, p, i)

\* start positions of the matches a search returns: left to right, a match
\* never overlapping the one before it
RECURSIVE SearchFrom(_, _, _)
SearchFrom(t, p, i) ==
    IF Len(p) = 0 \/ i + Len(p) - 1 > Len(t) THEN <<>>
    ELSE IF MatchAt(t, p, i) THEN <<i>> \o SearchFrom(t, p, i + Len(p))
    ELSE SearchFrom(t, p, i + 1)

SearchText(t, p) == SearchFrom(t, p, 1)

(***************************************************************************)
(* The document.  The body is a sequence of character cells; a cell keeps  *)
(* what the workflow can change: its hyperlink, its font, and whether it   *)
(* is a tracked insertion ("ins") or a tracked deletion ("del").           *)
(***************************************************************************)
Cell(id, ch, link) ==
    [id |-> id, ch |-> ch, link |-> link, hl |-> "none", col |-> "auto",
     tc |-> "none", src |-> 0]

MarkerParagraph(tc) == [text |-> MARKER, tc |-> tc]

\* the cells a reader sees: tracked deletions are struck out
Visible(b) == SelectSeq(b, LAMBDA c : c.tc # "del")

CellText(cells) == [i \in 1..Len(cells) |-> cells[i].ch]

\* body.text
BodyText(b) == CellText(Visible(b))

\* variant of SearchRanges: text a replacement has inserted is not searched
SearchRangesOriginalOnly(b, item) ==
    LET vis == SelectSeq(b, LAMBDA c : c.tc # "del" /\ c.src = 0)
        starts == SearchText(CellText(vis), item)
    IN  [k \in 1..Len(starts) |->
            [j \in 1..Len(item) |-> vis[starts[k] + j - 1].id]]

\* body.search(item, { matchCase: false, ignorePunct: false }).items :
\* each range is the sequence of the ids of the cells it covers
SearchRanges(b, item) ==
    LET vis == Visible(b)
        starts == SearchText(CellText(vis), item)
    IN  [k \in 1..Len(starts) |->
            [j \in 1..Len(item) |-> vis[starts[k] + j - 1].id]]

RangeIds(rng) == {rng[j] : j \in 1..Len(rng)}

\* variant of MarkerCount: the check looks for a text the header never holds
MarkerCountOtherText(h) ==
    Len(SelectSeq(h, LAMBDA p : p.text = "Confidential Document"))

\* header.search('CONFIDENTIAL DOCUMENT', { matchCase: true }).items.length
\* and header.getRange().text.includes("CONFIDENTIAL DOCUMENT")
MarkerCount(h) == Len(SelectSeq(h, LAMBDA p : p.text = MARKER))

(***************************************************************************)
(* Commands queued on a request context, and their effect on the document  *)
(* d = [body, header, mode, nextId, log, failed] when a sync runs them.    *)
(***************************************************************************)
SetMode(m) == [op |-> "setMode", mode |-> m, rng |-> <<>>]
ClearLink(rng) == [op |-> "clearLink", mode |-> "", rng |-> rng]
InsertText(rng) == [op |-> "insertText", mode |-> "", rng |-> rng]
SetFont(rng) == [op |-> "setFont", mode |-> "", rng |-> rng]
InsertParagraph == [op |-> "insertParagraph", mode |-> "", rng |-> <<>>]
RejectBody == [op |-> "rejectBody", mode |-> "", rng |-> <<>>]
RejectHeader == [op |-> "rejectHeader", mode |-> "", rng |-> <<>>]

Tracking(d) == d.mode # "off"

\* found.hyperlink = '' : with tracking on the removal is a tracked change
ExecClearLink(d, rng) ==
    [d EXCEPT !.body = [i \in 1..Len(d.body) |->
        IF d.body[i].id \in RangeIds(rng) /\ d.body[i].link = "set"
        THEN [d.body[i] EXCEPT !.link = IF Tracking(d) THEN "removedTracked" ELSE "none"]
        ELSE d.body[i]]]

\* found.insertText('[REDACTED]', Word.InsertLocation.replace)
ExecInsertText(d, rng) ==
    LET ids == RangeIds(rng)
        pos == CHOOSE i \in 1..Len(d.body) :
                   /\ d.body[i].id \in ids
                   /\ \A j \in (i + 1)..Len(d.body) : d.body[j].id \notin ids
        linked == \E i \in 1..Len(d.body) :
                      d.body[i].id \in ids /\ d.body[i].link = "set"
        token == [k \in 1..Len(REDACTED) |->
                    [id |-> d.nextId + k - 1, ch |-> REDACTED[k],
                     link |-> IF linked THEN "set" ELSE "none",
                     hl |-> "none", col |-> "auto",
                     tc |-> IF Tracking(d) THEN "ins" ELSE "none",
                     src |-> rng[1]]]
        struck == [i \in 1..pos |->
                    IF d.body[i].id \in ids /\ d.body[i].tc = "none"
                    THEN [d.body[i] EXCEPT !.tc = "del"] ELSE d.body[i]]
        before == IF Tracking(d)
                  THEN SelectSeq(struck, LAMBDA c : ~(c.id \in ids /\ c.tc = "ins"))
                  ELSE SelectSeq(SubSeq(d.body, 1, pos), LAMBDA c : c.id \notin ids)
    IN  [d EXCEPT !.body = before \o token \o SubSeq(d.body, pos + 1, Len(d.body)),
                  !.nextId = d.nextId + Len(REDACTED)]

\* redacted.font.highlightColor / color on the range insertText returned
ExecSetFont(d, rng) ==
    [d EXCEPT !.body = [i \in 1..Len(d.body) |->
        IF d.body[i].src = rng[1]
        THEN [d.body[i] EXCEPT !.hl = HighlightColor, !.col = FontColor]
        ELSE d.body[i]]]

\* header.insertParagraph('CONFIDENTIAL DOCUMENT', 'Start')
ExecInsertParagraph(d) ==
    [d EXCEPT !.header =
        <<MarkerParagraph(IF Tracking(d) THEN "ins" ELSE "none")>> \o d.header]

\* body.getTrackedChanges().rejectAll()
ExecRejectBody(d) ==
    LET kept == SelectSeq(d.body, LAMBDA c : c.tc # "ins")
    IN  [d EXCEPT !.body = [i \in 1..Len(kept) |->
            [kept[i] EXCEPT !.tc = "none",
                            !.link = IF kept[i].link = "removedTracked"
                                     THEN "set" ELSE kept[i].link]]]

\* header.getTrackedChanges().rejectAll()
ExecRejectHeader(d) ==
    [d EXCEPT !.header = SelectSeq(d.header, LAMBDA p : p.tc # "ins")]

\* a command the host cannot run makes the sync throw
CanExec(d, c, api) ==
    CASE c.op = "setMode" -> api >= 15
      [] c.op \in {"rejectBody", "rejectHeader"} -> api >= 16
      [] c.op \in {"clearLink", "insertText"} ->
            \E i \in 1..Len(d.body) : d.body[i].id \in RangeIds(c.rng)
      [] OTHER -> TRUE

ExecCmd(d, c) ==
    LET e == CASE c.op = "setMode" -> [d EXCEPT !.mode = c.mode]
               [] c.op = "clearLink" -> ExecClearLink(d, c.rng)
               [] c.op = "insertText" -> ExecInsertText(d, c.rng)
               [] c.op = "setFont" -> ExecSetFont(d, c.rng)
               [] c.op = "insertParagraph" -> ExecInsertParagraph(d)
               [] c.op = "rejectBody" -> ExecRejectBody(d)
               [] c.op = "rejectHeader" -> ExecRejectHeader(d)
    IN  [e EXCEPT !.log = Append(d.log, [op |-> c.op, mode |-> e.mode])]

\* run the queue in order; stop at the first command that cannot run
\* (v is the document the commands before have left)
RECURSIVE ExecQueue(_, _, _)
ExecQueue(d, q, api) ==
    IF q = <<>> THEN d
    ELSE CHOOSE out \in
            {IF ~CanExec(v, Head(q), api) THEN [v EXCEPT !.failed = TRUE]
             ELSE ExecQueue(ExecCmd(v, Head(q)), Tail(q), api) : v \in {d}} : TRUE

(***************************************************************************)
(* Status messages.  A message is its text plus the numbers the code       *)
(* interpolates into it.                                                   *)
(***************************************************************************)
Msg(text) == [text |-> text, count |-> 0, total |-> 0]
MsgN(text, c, n) == [text |-> text, count |-> c, total |-> n]

MsgSetup(v) ==
    IF v = "route" THEN Msg("Setting up document tracking...")
    ELSE Msg("Enabling Track Changes & Header...")
MsgReading == Msg("Reading document content...")
MsgEmpty(v) ==
    IF v = "route" THEN Msg("The document appears to be empty.")
    ELSE Msg("Document is empty.")
MsgIdentifying(v) ==
    IF v = "route" THEN Msg("AI is identifying sensitive data...")
    ELSE Msg("Identifying sensitive information...")
MsgNothing(v) ==
    IF v = "route" THEN Msg("No sensitive data found. You're clear!")
    ELSE Msg("No sensitive information found.")
MsgProtecting(c, n) == MsgN("Protecting data (count/total)...", c, n)
MsgRedacting(n) == MsgN("Redacting total unique items...", 0, n)
MsgAccomplished(v, n) ==
    IF v = "route" THEN MsgN("Mission accomplished! total items secured.", 0, n)
    ELSE MsgN("Successfully redacted total items!", 0, n)
MsgDone == Msg("Done!")

\* the messages that report that there was no text to process
EmptyDocumentMsgs == {MsgEmpty("route"), MsgEmpty("lib")}

\* route.ts:284-287
RejectUnsupported ==
    "Your version of Word doesn't support automatic rejection. You can still reject changes manually from the 'Review' tab."
\* route.ts:215 and word-interaction.ts:92 (response.statusText of a 500)
FallbackMessage(v) ==
    IF v = "route" THEN "AI Service Unavailable" ELSE "Internal Server Error"
\* the message of the error a failed context.sync() or fetch() throws
SyncError == "GeneralException"
NetworkError == "Failed to fetch"

(***************************************************************************)
(* What the classification request can come back with.                     *)
(***************************************************************************)
PiiSpans == {<<"X">>, <<"x", "d">>, <<"d">>, <<" ">>}
PiiLists == UNION {[1..n -> PiiSpans] : n \in 0..MaxPii}
\* the error field of a non-2xx reply; "" is a reply without one
ErrorFields == {"quota exceeded", ""}

Responses ==
    {[net |-> FALSE, ok |-> TRUE, error |-> "", pii |-> l] : l \in PiiLists}
    \cup {[net |-> FALSE, ok |-> FALSE, error |-> e, pii |-> <<>>] : e \in ErrorFields}
    \cup {[net |-> TRUE, ok |-> FALSE, error |-> "", pii |-> <<>>]}

(***************************************************************************)
(* POST /api/redact.  The text the upstream model answers with is a        *)
(* sequence of tokens: brackets and commas, a string literal "s", a number *)
(* literal "1", an object literal "{}", prose "x", the markdown fences      *)
(* (written ~~~) and white space.                                          *)
(***************************************************************************)
RawTokens == {"[", "]", ",", "s", "1", "{}", "x", "~~~json", "~~~", " "}
RawTexts == UNION {[1..n -> RawTokens] : n \in 0..MaxRawLen}

\* a parsed JSON value: its type and, for an array, its elements
JsonValue(kind, items) == [kind |-> kind, items |-> items]
NoValue == JsonValue("undefined", <<>>)
SyntaxError == [ok |-> FALSE, v |-> NoValue, next |-> 0]
Parsed(v, next) == [ok |-> TRUE, v |-> v, next |-> next]

\* JSON.parse, by recursive descent over the tokens that are not white space
RECURSIVE ParseValue(_, _)
RECURSIVE ParseItems(_, _, _)
ParseValue(t, i) ==
    IF i > Len(t) THEN SyntaxError
    ELSE IF t[i] = "s" THEN Parsed(JsonValue("string", <<>>), i + 1)
    ELSE IF t[i] = "1" THEN Parsed(JsonValue("number", <<>>), i + 1)
    ELSE IF t[i] = "{}" THEN Parsed(JsonValue("object", <<>>), i + 1)
    ELSE IF t[i] = "[" THEN
        IF i + 1 <= Len(t) /\ t[i + 1] = "]"
        THEN Parsed(JsonValue("array", <<>>), i + 2)
        ELSE ParseItems(t, i + 1, <<>>)
    ELSE SyntaxError

ParseItems(t, i, acc) ==
    LET e == ParseValue(t, i)
    IN  IF ~e.ok \/ e.next > Len(t) THEN SyntaxError
        ELSE IF t[e.next] = "]"
             THEN Parsed(JsonValue("array", Append(acc, e.v)), e.next + 1)
        ELSE IF t[e.next] = ","
             THEN ParseItems(t, e.next + 1, Append(acc, e.v))
        ELSE SyntaxError

JSONparse(text) ==
    LET t == SelectSeq(text, LAMBDA c : c \notin Whitespace)
        e == ParseValue(t, 1)
    IN  IF e.ok /\ e.next = Len(t) + 1 THEN e ELSE SyntaxError

\* Array.isArray
IsArray(v) == v.kind = "array"

\* String.prototype.indexOf / lastIndexOf, 0-based, -1 when absent
IndexOf(t, c) ==
    IF \E i \in 1..Len(t) : t[i] = c
    THEN (CHOOSE i \in 1..Len(t) : t[i] = c /\ \A j \in 1..(i - 1) : t[j] # c) - 1
    ELSE -1

LastIndexOf(t, c) ==
    IF \E i \in 1..Len(t) : t[i] = c
    THEN (CHOOSE i \in 1..Len(t) : t[i] = c /\ \A j \in (i + 1)..Len(t) : t[j] # c) - 1
    ELSE -1

\* String.prototype.substring(a, b): the arguments are swapped when a > b
Substring(t, a, b) ==
    LET lo == IF a <= b THEN a ELSE b
        hi == IF a <= b THEN b ELSE a
    IN  SubSeq(t, lo + 1, IF hi <= Len(t) THEN hi ELSE Len(t))

\* .replace(/^~~~json/i, "").replace(/~~~$/, "").trim(), where ~~~ stands
\* for the three backticks of a markdown fence
StripFences(t) ==
    LET a == IF t # <<>> /\ t[1] = "~~~json" THEN Tail(t) ELSE t
        b == IF a # <<>> /\ a[Len(a)] = "~~~" THEN SubSeq(a, 1, Len(a) - 1) ELSE a
    IN  Trim(b)

\* route.ts:83-88 and layout.tsx:176: the text handed to JSON.parse
Cleaned(server, rawText) ==
    LET startIdx == IndexOf(rawText, "[")
        endIdx == LastIndexOf(rawText, "]")
    IN  IF server = "route" /\ startIdx # -1 /\ endIdx # -1
        THEN Substring(rawText, startIdx, endIdx + 1)
        ELSE StripFences(rawText)

\* NextResponse.json({ error }, { status: 500 }) and NextResponse.json({ pii })
Reply500(message) == [status |-> 500, error |-> message, pii |-> NoValue]
Reply200(pii) == [status |-> 200, error |-> "", pii |-> pii]

\* a request as the handler meets it: can its body be read, is the key
\* set, does the upstream call throw, and what text does it answer with
Requests ==
    [json : BOOLEAN, apiKey : BOOLEAN, upstream : {"ok", "throws"},
     rawText : RawTexts]

\* export async function POST(req)
POST(server, req) ==
    LET e == JSONparse(Cleaned(server, req.rawText))
    IN  IF ~req.json THEN Reply500("Unexpected end of JSON input")
        ELSE IF ~req.apiKey THEN Reply500("GEMINI_API_KEY is not set")
        ELSE IF req.upstream = "throws" THEN Reply500("fetch failed")
        ELSE IF ~e.ok THEN
            Reply500(IF server = "route"
                     THEN "Failed to parse AI response. Expected a list."
                     ELSE "Failed to parse AI response")
        ELSE IF server = "route" /\ ~IsArray(e.v)
             THEN Reply200(JsonValue("array", <<>>))
        ELSE Reply200(e.v)

(***************************************************************************)
(* State                                                                   *)
(***************************************************************************)
VARIABLES
    wordApi,              \* requirement set of the host: 14, 15 or 16
    variant,              \* which copy of the workflow is deployed
    body,                 \* context.document.body
    header,               \* first section's primary header, paragraphs
    changeTrackingMode,   \* context.document.changeTrackingMode
    nextId,               \* next fresh cell id
    trace,                \* commands the last sync ran, with the mode in force
    isOfficeInitialized,  \* React state of TaskPane
    status,
    isProcessing,
    isMounted,            \* isMounted.current
    clicks,               \* button clicks so far
    run,                  \* per Word.run: where it is and its locals
    original,             \* the document as it was opened (history)
    closure,              \* the state the handlers of the last render captured
    endpoint              \* a call of POST /api/redact: request and response

vars == <<wordApi, variant, body, header, changeTrackingMode, nextId, trace,
          isOfficeInitialized, status, isProcessing, isMounted, clicks, run,
          original, closure, endpoint>>

docVars == <<body, header, changeTrackingMode, nextId, trace>>
\* what no handler and no workflow step assigns
envVars == <<wordApi, variant, closure, endpoint>>

IdleRun ==
    [pc |-> "idle", kind |-> "none", queue |-> <<>>, pii |-> <<>>, idx |-> 0,
     count |-> 0, err |-> "", progress |-> <<>>, warnings |-> {},
     resp |-> <<>>, before |-> <<>>, fetches |-> 0]

isSetSupported(v) == wordApi >= v

\* no request has reached the endpoint
NoCall == [server |-> "none", req |-> <<>>, resp |-> <<>>]

InitBodies ==
    UNION {[1..n -> BodyChars] : n \in 0..MaxBodyLen}

\* the first character of the text carries a hyperlink, the rest none
InitBody(t) ==
    [i \in 1..Len(t) |-> Cell(i, t[i], IF i = 1 THEN "set" ELSE "none")]

Init ==
    /\ wordApi \in {14, 15, 16}
    /\ variant \in {"route", "lib"}
    /\ \E t \in InitBodies :
          /\ body = InitBody(t)
          /\ nextId = Len(t) + 1
    /\ header \in {<<>>, <<MarkerParagraph("none")>>}
    /\ changeTrackingMode \in {"off", "trackAll"}
    /\ trace = <<>>
    /\ isOfficeInitialized = FALSE
    /\ status = Msg("")
    /\ isProcessing = FALSE
    /\ isMounted = TRUE
    /\ clicks = 0
    /\ run = [r \in Runs |-> IdleRun]
    /\ original = [body |-> body, header |-> header, mode |-> changeTrackingMode]
    /\ closure = [isProcessing |-> FALSE, isOfficeInitialized |-> FALSE]
    /\ endpoint = NoCall

(***************************************************************************)
(* The request context: what a sync does to the document.                  *)
(***************************************************************************)
Doc ==
    [body |-> body, header |-> header, mode |-> changeTrackingMode,
     nextId |-> nextId, log |-> <<>>, failed |-> FALSE]

SetDoc(d) ==
    /\ body' = d.body
    /\ header' = d.header
    /\ changeTrackingMode' = d.mode
    /\ nextId' = d.nextId
    /\ trace' = d.log

\* the documents a sync of queue q can leave behind when it resolves
SyncOk(q) ==
    {d \in {ExecQueue(Doc, q, wordApi)} : ~d.failed}

\* ... and when it throws: the host has run some prefix of the batch
SyncFailed(q) ==
    {ExecQueue(Doc, SubSeq(q, 1, k), wordApi) : k \in 0..Len(q)}

\* variant of Shown: the callback sets the status of a pane that is gone
ShownUnguarded(msgs) ==
    IF msgs # <<>> THEN msgs[Len(msgs)] ELSE status

\* setStatus through the isMounted guard of the handler's callback
Shown(msgs) ==
    IF isMounted /\ msgs # <<>> THEN msgs[Len(msgs)] ELSE status

\* the document as a handler finds it when it starts (history, per run)
Snapshot == <<[body |-> body, header |-> header, mode |-> changeTrackingMode]>>

(***************************************************************************)
(* Task pane (TaskPane component)                                          *)
(***************************************************************************)
\* Office.onReady callback of the initialization effect
OfficeReady ==
    /\ isMounted
    /\ ~isOfficeInitialized
    /\ isOfficeInitialized' = TRUE
    /\ UNCHANGED <<envVars, docVars, status, isProcessing, isMounted, clicks,
                   run, original>>

\* cleanup of the initialization effect
Unmount ==
    /\ isMounted
    /\ isMounted' = FALSE
    /\ UNCHANGED <<envVars, docVars, isOfficeInitialized, status, isProcessing,
                   clicks, run, original>>

\* the state a render of TaskPane hands to the handlers it creates
Current ==
    [isProcessing |-> isProcessing, isOfficeInitialized |-> isOfficeInitialized]

\* no render is outstanding: the pane shows, and its handlers hold, the
\* current state (a pane that is gone is not rendered any more)
Rendered == ~isMounted \/ closure = Current

\* React renders TaskPane again after a state update: handleRedact and
\* handleReject are created anew and capture the state of that render
Render ==
    /\ isMounted
    /\ ~Rendered
    /\ closure' = Current
    /\ UNCHANGED <<wordApi, variant, endpoint, docVars, isOfficeInitialized,
                   status, isProcessing, isMounted, clicks, run, original>>

\* the guard both handlers start with, for a pane that is still shown:
\* isProcessing and isOfficeInitialized are the values the handler captured
CanClick(r) ==
    /\ isMounted
    /\ ~(closure.isProcessing \/ ~closure.isOfficeInitialized)
    /\ clicks < MaxClicks
    /\ run[r].pc = "idle"
    /\ \A q \in Runs : run[q].pc = "idle" => r <= q

\* the replacements whose token, or part of it, is in the text
Pending(b) == {b[i].src : i \in 1..Len(b)} \ {0}

\* handleRedact up to the first await inside formatAndRedactDocument
ClickRedact(r) ==
    /\ CanClick(r)
    /\ Cardinality(Pending(body)) <= MaxPending
    /\ status' = MsgSetup(variant)
    /\ isProcessing' = TRUE
    /\ clicks' = clicks + 1
    /\ run' = [run EXCEPT ![r] =
          [IdleRun EXCEPT !.kind = "redact",
                          !.before = Snapshot,
                          !.progress = <<MsgSetup(variant)>>,
                          !.warnings = IF isSetSupported(15) THEN {}
                                       ELSE {"tracking"},
                          !.pc = IF isSetSupported(15) THEN "sync_mode"
                                 ELSE "sync_sections"]]
    /\ UNCHANGED <<envVars, docVars, isOfficeInitialized, isMounted, original>>

\* variant of RejectCmds: the header's tracked changes are left alone
RejectCmdsBodyOnly == <<RejectBody>>

\* route.ts:274-279  what rejectAllChanges queues before its sync
RejectCmds == <<RejectBody, RejectHeader>>

\* variant of ClickReject: rejectAllChanges without its capability check
ClickRejectUnchecked(r) ==
    /\ CanClick(r)
    /\ variant = "route"
    /\ status' = Msg("Reverting changes...")
    /\ isProcessing' = TRUE
    /\ clicks' = clicks + 1
    /\ run' = [run EXCEPT ![r] =
          [IdleRun EXCEPT !.kind = "reject", !.before = Snapshot,
                          !.queue = RejectCmds, !.pc = "sync_reject"]]
    /\ UNCHANGED <<envVars, docVars, isOfficeInitialized, isMounted, original>>

\* handleReject up to the await inside rejectAllChanges
ClickReject(r) ==
    /\ CanClick(r)
    /\ variant = "route"
    /\ status' = Msg("Reverting changes...")
    /\ isProcessing' = TRUE
    /\ clicks' = clicks + 1
    /\ run' = [run EXCEPT ![r] =
          IF isSetSupported(16)
          THEN [IdleRun EXCEPT !.kind = "reject", !.before = Snapshot,
                               !.queue = RejectCmds,
                               !.pc = "sync_reject"]
          ELSE [IdleRun EXCEPT !.kind = "reject", !.before = Snapshot,
                               !.err = RejectUnsupported,
                               !.pc = "thrown"]]
    /\ UNCHANGED <<envVars, docVars, isOfficeInitialized, isMounted, original>>

\* what the status line shows once the handler is through
EndStatus(r) ==
    IF ~isMounted THEN status
    ELSE IF run[r].pc = "returned"
         THEN IF run[r].kind = "redact" THEN Msg("Document secured!")
              ELSE Msg("Changes rejected, document restored.")
         ELSE IF run[r].err # "" THEN Msg(run[r].err)
              ELSE IF run[r].kind = "redact"
                   THEN Msg("Something went wrong, please try again.")
                   ELSE Msg("Failed to reject changes, please do it manually.")

\* variant of HandlerEnd: the catch block undoes the preparation
HandlerEndRollback(r) ==
    /\ run[r].pc \in {"returned", "thrown"}
    /\ status' = EndStatus(r)
    /\ isProcessing' = IF isMounted THEN FALSE ELSE isProcessing
    /\ run' = [run EXCEPT ![r] = IdleRun]
    /\ IF run[r].pc = "thrown"
       THEN /\ changeTrackingMode' = run[r].before[1].mode
            /\ header' = run[r].before[1].header
       ELSE UNCHANGED <<changeTrackingMode, header>>
    /\ UNCHANGED <<envVars, body, nextId, trace, isOfficeInitialized,
                   isMounted, clicks, original>>

\* variant of HandlerEnd: the flag is cleared on the success path only
HandlerEndNoFinally(r) ==
    /\ run[r].pc \in {"returned", "thrown"}
    /\ status' = EndStatus(r)
    /\ isProcessing' = IF isMounted /\ run[r].pc = "returned" THEN FALSE
                       ELSE isProcessing
    /\ run' = [run EXCEPT ![r] = IdleRun]
    /\ UNCHANGED <<envVars, docVars, isOfficeInitialized, isMounted, clicks,
                   original>>

\* the handler after await Word.run(...): success line, catch, finally
HandlerEnd(r) ==
    /\ run[r].pc \in {"returned", "thrown"}
    /\ status' = EndStatus(r)
    /\ isProcessing' = IF isMounted THEN FALSE ELSE isProcessing
    /\ run' = [run EXCEPT ![r] = IdleRun]
    /\ UNCHANGED <<envVars, docVars, isOfficeInitialized, isMounted, clicks,
                   original>>

(***************************************************************************)
(* enableTrackChanges                                                      *)
(***************************************************************************)
\* first statement of addConfidentialHeader: sections.load; await sync
EnterHeader(rec) == [rec EXCEPT !.pc = "sync_sections", !.queue = <<>>]

\* step 2 of formatAndRedactDocument: onProgress; body.load; await sync
EnterRead(rec) ==
    [rec EXCEPT !.pc = "sync_body", !.queue = <<>>,
                !.progress = @ \o <<MsgReading>>]

\* variant of SyncMode: trackAll is assigned whatever the loaded mode is
SyncModeAlways(r) ==
    /\ run[r].pc = "sync_mode"
    /\ \E d \in SyncOk(run[r].queue) :
          /\ SetDoc(d)
          /\ run' = [run EXCEPT ![r] =
                [@ EXCEPT !.queue = <<SetMode("trackAll")>>,
                          !.pc = "sync_setmode"]]
    /\ UNCHANGED <<envVars, isOfficeInitialized, status, isProcessing,
                   isMounted, clicks, original>>

\* variant of SyncMode: the comparison with trackAll is the wrong way round
SyncModeInverted(r) ==
    /\ run[r].pc = "sync_mode"
    /\ \E d \in SyncOk(run[r].queue) :
          /\ SetDoc(d)
          /\ run' = [run EXCEPT ![r] =
                IF d.mode = "trackAll"
                THEN [@ EXCEPT !.queue = <<SetMode("trackAll")>>,
                               !.pc = "sync_setmode"]
                ELSE EnterHeader(@)]
    /\ UNCHANGED <<envVars, isOfficeInitialized, status, isProcessing,
                   isMounted, clicks, original>>

\* await context.sync() after document.load('changeTrackingMode')
SyncMode(r) ==
    /\ run[r].pc = "sync_mode"
    /\ \E d \in SyncOk(run[r].queue) :
          /\ SetDoc(d)
          /\ run' = [run EXCEPT ![r] =
                IF d.mode # "trackAll"
                THEN [@ EXCEPT !.queue = <<SetMode("trackAll")>>,
                               !.pc = "sync_setmode"]
                ELSE EnterHeader(@)]
    /\ UNCHANGED <<envVars, isOfficeInitialized, status, isProcessing,
                   isMounted, clicks, original>>

\* variant of SyncSetMode: the assignment of trackAll is never committed
SyncSetModeDropped(r) ==
    /\ run[r].pc = "sync_setmode"
    /\ run' = [run EXCEPT ![r] = EnterHeader(@)]
    /\ UNCHANGED <<envVars, docVars, isOfficeInitialized, status, isProcessing,
                   isMounted, clicks, original>>

\* await context.sync() after the assignment of trackAll
SyncSetMode(r) ==
    /\ run[r].pc = "sync_setmode"
    /\ \E d \in SyncOk(run[r].queue) :
          /\ SetDoc(d)
          /\ run' = [run EXCEPT ![r] = EnterHeader(@)]
    /\ UNCHANGED <<envVars, isOfficeInitialized, status, isProcessing,
                   isMounted, clicks, original>>

(***************************************************************************)
(* addConfidentialHeader                                                   *)
(***************************************************************************)
\* await context.sync() after sections.load('items'); then the marker check
SyncSections(r) ==
    /\ run[r].pc = "sync_sections"
    /\ \E d \in SyncOk(run[r].queue) :
          /\ SetDoc(d)
          /\ run' = [run EXCEPT ![r] = [@ EXCEPT !.pc = "sync_hdrcheck",
                                                 !.queue = <<>>]]
    /\ UNCHANGED <<envVars, isOfficeInitialized, status, isProcessing,
                   isMounted, clicks, original>>

\* await context.sync() that loads the marker search (or the header text)
SyncHdrCheck(r) ==
    /\ run[r].pc = "sync_hdrcheck"
    /\ \E d \in SyncOk(run[r].queue) :
          /\ SetDoc(d)
          /\ IF MarkerCount(d.header) = 0
             THEN /\ run' = [run EXCEPT ![r] =
                        [@ EXCEPT !.queue = <<InsertParagraph>>,
                                  !.pc = "sync_hdrinsert"]]
                  /\ status' = status
             ELSE /\ run' = [run EXCEPT ![r] = EnterRead(@)]
                  /\ status' = Shown(<<MsgReading>>)
    /\ UNCHANGED <<envVars, isOfficeInitialized, isProcessing, isMounted,
                   clicks, original>>

\* await context.sync() after header.insertParagraph
SyncHdrInsert(r) ==
    /\ run[r].pc = "sync_hdrinsert"
    /\ \E d \in SyncOk(run[r].queue) :
          /\ SetDoc(d)
          /\ run' = [run EXCEPT ![r] = EnterRead(@)]
          /\ status' = Shown(<<MsgReading>>)
    /\ UNCHANGED <<envVars, isOfficeInitialized, isProcessing, isMounted,
                   clicks, original>>

\* route.ts:167-170  the catch around the header's search and insertion
HeaderCatch(r) ==
    /\ variant = "route"
    /\ run[r].pc \in {"sync_hdrcheck", "sync_hdrinsert"}
    /\ \E d \in SyncFailed(run[r].queue) :
          /\ SetDoc(d)
          /\ run' = [run EXCEPT ![r] =
                EnterRead([@ EXCEPT !.warnings = @ \cup {"header"}])]
          /\ status' = Shown(<<MsgReading>>)
    /\ UNCHANGED <<envVars, isOfficeInitialized, isProcessing, isMounted,
                   clicks, original>>

(***************************************************************************)
(* formatAndRedactDocument                                                 *)
(***************************************************************************)
\* throw: the rejection travels up to the handler's catch
Throw(rec, e) == [rec EXCEPT !.pc = "thrown", !.err = e, !.queue = <<>>]

\* await context.sync() after body.load('text'); the empty-document check
SyncBody(r) ==
    /\ run[r].pc = "sync_body"
    /\ \E d \in SyncOk(run[r].queue) :
          /\ SetDoc(d)
          /\ IF IsBlank(BodyText(d.body))
             THEN /\ run' = [run EXCEPT ![r] =
                        [@ EXCEPT !.pc = "returned", !.queue = <<>>,
                                  !.progress = @ \o <<MsgEmpty(variant)>>]]
                  /\ status' = Shown(<<MsgEmpty(variant)>>)
             ELSE /\ run' = [run EXCEPT ![r] =
                        [@ EXCEPT !.pc = "await_fetch", !.queue = <<>>,
                                  !.fetches = @ + 1,
                                  !.progress = @ \o <<MsgIdentifying(variant)>>]]
                  /\ status' = Shown(<<MsgIdentifying(variant)>>)
    /\ UNCHANGED <<envVars, isOfficeInitialized, isProcessing, isMounted,
                   clicks, original>>

\* variant of OccurrenceCmds: tracking is switched back on only after the
\* replacement has been queued
OccurrenceCmdsLateTracking(found) ==
    <<SetMode("off"), ClearLink(found), InsertText(found),
      SetMode("trackAll"), SetFont(found)>>

\* the commands the inner loop queues for one search result
OccurrenceCmds(found) ==
    <<SetMode("off"), ClearLink(found), SetMode("trackAll"),
      InsertText(found), SetFont(found)>>

\* variant of FoundCmds: only the first search result is replaced
FoundCmdsFirstOnly(items) ==
    IF items = <<>> THEN <<>> ELSE OccurrenceCmds(Head(items))

RECURSIVE FoundCmds(_)
FoundCmds(items) ==
    IF items = <<>> THEN <<>>
    ELSE OccurrenceCmds(Head(items)) \o FoundCmds(Tail(items))

\* the messages the loop reports when it takes up the count-th item
ItemMsgs(v, c, n) == IF v = "route" THEN <<MsgProtecting(c, n)>> ELSE <<>>

\* variant of NextItem: blank items are taken up like any other
NextItemNoSkip(rec, from, cmds) ==
    IF from <= Len(rec.pii)
    THEN [rec EXCEPT !.pc = "sync_search", !.idx = from,
                     !.count = @ + 1, !.queue = cmds,
                     !.progress = @ \o ItemMsgs(variant, rec.count + 1,
                                                Len(rec.pii))]
    ELSE [rec EXCEPT !.pc = "sync_commit", !.idx = Len(rec.pii) + 1,
                     !.queue = cmds]

\* for (const item of pii): skip blank items; for the next one count it,
\* report it and queue its search, or leave the loop for the final sync
NextItem(rec, from, cmds) ==
    LET todo == {i \in from..Len(rec.pii) : ~IsBlank(rec.pii[i])}
    IN  IF todo # {}
        THEN LET i == CHOOSE j \in todo : \A k \in todo : j <= k
             IN  [rec EXCEPT !.pc = "sync_search", !.idx = i,
                             !.count = @ + 1, !.queue = cmds,
                             !.progress = @ \o ItemMsgs(variant, rec.count + 1,
                                                        Len(rec.pii))]
        ELSE [rec EXCEPT !.pc = "sync_commit", !.idx = Len(rec.pii) + 1,
                         !.queue = cmds]

\* what NextItem shows, if anything
NextItemShown(rec, from) ==
    IF \E i \in from..Len(rec.pii) : ~IsBlank(rec.pii[i])
    THEN ItemMsgs(variant, rec.count + 1, Len(rec.pii))
    ELSE <<>>

\* variant of ErrorMessage: the reply's error field is ignored
ErrorMessageGeneric(resp, v) == FallbackMessage(v)

\* error.error || 'AI Service Unavailable'  (errorData.error || statusText)
ErrorMessage(resp, v) ==
    IF resp.error # "" THEN resp.error ELSE FallbackMessage(v)

\* variant of FetchReply: a request that got no answer is sent once more
FetchReplyRetry(r) ==
    /\ run[r].pc = "await_fetch"
    /\ run[r].fetches < 2
    /\ run' = [run EXCEPT ![r] = [@ EXCEPT !.fetches = @ + 1]]
    /\ UNCHANGED <<envVars, docVars, isOfficeInitialized, status, isProcessing,
                   isMounted, clicks, original>>

\* await fetch('/api/redact') and await response.json()
FetchReply(r) ==
    /\ run[r].pc = "await_fetch"
    /\ \E resp \in Responses :
          IF resp.net THEN
              /\ run' = [run EXCEPT ![r] =
                    Throw([@ EXCEPT !.resp = <<resp>>], NetworkError)]
              /\ status' = status
          ELSE IF ~resp.ok THEN
              /\ run' = [run EXCEPT ![r] =
                    Throw([@ EXCEPT !.resp = <<resp>>],
                          ErrorMessage(resp, variant))]
              /\ status' = status
          ELSE IF Len(resp.pii) = 0 THEN
              LET msgs == IF variant = "route" THEN <<MsgNothing(variant)>>
                          ELSE <<MsgNothing(variant), MsgDone>>
              IN  /\ run' = [run EXCEPT ![r] =
                        [@ EXCEPT !.pc = "returned", !.resp = <<resp>>,
                                  !.progress = @ \o msgs]]
                  /\ status' = Shown(msgs)
          ELSE
              LET first == IF variant = "route" THEN <<>>
                           ELSE <<MsgRedacting(Len(resp.pii))>>
                  rec == [run[r] EXCEPT !.pii = resp.pii, !.resp = <<resp>>,
                                        !.progress = @ \o first]
              IN  /\ run' = [run EXCEPT ![r] = NextItem(rec, 1, <<>>)]
                  /\ status' = Shown(first \o NextItemShown(rec, 1))
    /\ UNCHANGED <<envVars, docVars, isOfficeInitialized, isProcessing,
                   isMounted, clicks, original>>

\* await context.sync() after searchResults.load('items'): the batch holds
\* the replacements queued for the item before; then the loop over the
\* results of this item, and on to the next item
SyncSearch(r) ==
    /\ run[r].pc = "sync_search"
    /\ \E d \in SyncOk(run[r].queue) :
          LET items == SearchRanges(d.body, run[r].pii[run[r].idx])
          IN  /\ SetDoc(d)
              /\ run' = [run EXCEPT ![r] =
                    NextItem(@, run[r].idx + 1, FoundCmds(items))]
              /\ status' = Shown(NextItemShown(run[r], run[r].idx + 1))
    /\ UNCHANGED <<envVars, isOfficeInitialized, isProcessing, isMounted,
                   clicks, original>>

\* variant of SyncCommit: completion is reported without the final commit
SyncCommitUnawaited(r) ==
    /\ run[r].pc = "sync_commit"
    /\ LET msgs == <<MsgAccomplished(variant, Len(run[r].pii)), MsgDone>>
       IN  /\ run' = [run EXCEPT ![r] =
                 [@ EXCEPT !.pc = "returned", !.queue = <<>>,
                           !.progress = @ \o msgs]]
           /\ status' = Shown(msgs)
    /\ UNCHANGED <<envVars, docVars, isOfficeInitialized, isProcessing,
                   isMounted, clicks, original>>

\* the final await context.sync() and the two closing messages
SyncCommit(r) ==
    /\ run[r].pc = "sync_commit"
    /\ \E d \in SyncOk(run[r].queue) :
          LET msgs == <<MsgAccomplished(variant, Len(run[r].pii)), MsgDone>>
          IN  /\ SetDoc(d)
              /\ run' = [run EXCEPT ![r] =
                    [@ EXCEPT !.pc = "returned", !.queue = <<>>,
                              !.progress = @ \o msgs]]
              /\ status' = Shown(msgs)
    /\ UNCHANGED <<envVars, isOfficeInitialized, isProcessing, isMounted,
                   clicks, original>>

(***************************************************************************)
(* rejectAllChanges                                                        *)
(***************************************************************************)
\* await context.sync() after the two rejectAll() calls
SyncReject(r) ==
    /\ run[r].pc = "sync_reject"
    /\ \E d \in SyncOk(run[r].queue) :
          /\ SetDoc(d)
          /\ run' = [run EXCEPT ![r] = [@ EXCEPT !.pc = "returned",
                                                 !.queue = <<>>]]
    /\ UNCHANGED <<envVars, isOfficeInitialized, status, isProcessing,
                   isMounted, clicks, original>>

(***************************************************************************)
(* A context.sync() that throws, anywhere it is not caught locally         *)
(***************************************************************************)
SyncPcs ==
    {"sync_mode", "sync_setmode", "sync_sections", "sync_hdrcheck",
     "sync_hdrinsert", "sync_body", "sync_search", "sync_commit",
     "sync_reject"}

SyncThrows(r) ==
    /\ run[r].pc \in SyncPcs
    /\ ~(variant = "route" /\ run[r].pc \in {"sync_hdrcheck", "sync_hdrinsert"})
    /\ \E d \in SyncFailed(run[r].queue) :
          /\ SetDoc(d)
          /\ run' = [run EXCEPT ![r] = Throw(@, SyncError)]
    /\ UNCHANGED <<envVars, isOfficeInitialized, status, isProcessing,
                   isMounted, clicks, original>>

(***************************************************************************)
(* Specification                                                           *)
(***************************************************************************)
\* a step of a run that has been started
RunStep(r) ==
    \/ HandlerEnd(r)
    \/ SyncMode(r)
    \/ SyncSetMode(r)
    \/ SyncSections(r)
    \/ SyncHdrCheck(r)
    \/ SyncHdrInsert(r)
    \/ HeaderCatch(r)
    \/ SyncBody(r)
    \/ FetchReply(r)
    \/ SyncSearch(r)
    \/ SyncCommit(r)
    \/ SyncReject(r)
    \/ SyncThrows(r)

\* React renders an update before the event loop takes up the next task, be
\* it a click or the continuation of an awaited call
Next ==
    \/ Render
    \/ Rendered /\ OfficeReady
    \/ \E r \in Runs : Rendered /\ ClickRedact(r)
    \/ \E r \in Runs : Rendered /\ ClickReject(r)
    \/ \E r \in Runs : Rendered /\ HandlerEnd(r)
    \/ \E r \in Runs : Rendered /\ SyncMode(r)
    \/ \E r \in Runs : Rendered /\ SyncSetMode(r)
    \/ \E r \in Runs : Rendered /\ SyncSections(r)
    \/ \E r \in Runs : Rendered /\ SyncHdrCheck(r)
    \/ \E r \in Runs : Rendered /\ SyncHdrInsert(r)
    \/ \E r \in Runs : Rendered /\ HeaderCatch(r)
    \/ \E r \in Runs : Rendered /\ SyncBody(r)
    \/ \E r \in Runs : Rendered /\ FetchReply(r)
    \/ \E r \in Runs : Rendered /\ SyncSearch(r)
    \/ \E r \in Runs : Rendered /\ SyncCommit(r)
    \/ \E r \in Runs : Rendered /\ SyncReject(r)
    \/ \E r \in Runs : Rendered /\ SyncThrows(r)

\* the task pane stays open
Spec == Init /\ [][Next]_vars

\* the task pane can be closed at any moment
NextPane == Next \/ Unmount

\* ... of a short document
InitPane ==
    /\ Init
    /\ Len(body) < MaxBodyLen

SpecPane == InitPane /\ [][NextPane]_vars

\* the pane stays open, React gets to render, and every awaited call of a
\* run comes back: it resolves or it rejects
Progress ==
    \/ Render
    \/ \E r \in Runs : Rendered /\ RunStep(r)

Fairness == WF_vars(Progress)

SpecLive == InitPane /\ [][Next]_vars /\ Fairness

\* two clicks can be dispatched in one task, the second before React has
\* rendered the update the first one made; the host's calls all succeed
NextClicks ==
    \/ Render
    \/ Rendered /\ OfficeReady
    \/ \E r \in Runs : ClickRedact(r)
    \/ \E r \in Runs : ClickReject(r)
    \/ \E r \in Runs : Rendered /\ HandlerEnd(r)
    \/ \E r \in Runs : Rendered /\ SyncMode(r)
    \/ \E r \in Runs : Rendered /\ SyncSetMode(r)
    \/ \E r \in Runs : Rendered /\ SyncSections(r)
    \/ \E r \in Runs : Rendered /\ SyncHdrCheck(r)
    \/ \E r \in Runs : Rendered /\ SyncHdrInsert(r)
    \/ \E r \in Runs : Rendered /\ SyncBody(r)
    \/ \E r \in Runs : Rendered /\ FetchReply(r)
    \/ \E r \in Runs : Rendered /\ SyncSearch(r)
    \/ \E r \in Runs : Rendered /\ SyncCommit(r)
    \/ \E r \in Runs : Rendered /\ SyncReject(r)

\* ... in a short document without header, tracking off
InitClicks ==
    /\ Init
    /\ Len(body) < MaxBodyLen
    /\ variant = "route"
    /\ header = <<>>
    /\ changeTrackingMode = "off"

SpecClicks == InitClicks /\ [][NextClicks]_vars

\* the endpoint answers the request it has received
Respond ==
    /\ endpoint.req # <<>>
    /\ endpoint.resp = <<>>
    /\ endpoint' = [endpoint EXCEPT
                       !.resp = <<POST(endpoint.server, endpoint.req[1])>>]
    /\ UNCHANGED <<wordApi, variant, closure, docVars, isOfficeInitialized,
                   status, isProcessing, isMounted, clicks, run, original>>

\* a request arrives at one of the two copies of the handler; the pane
\* plays no part
InitPost ==
    /\ wordApi = 16
    /\ variant = "route"
    /\ body = <<>>
    /\ nextId = 1
    /\ header = <<>>
    /\ changeTrackingMode = "off"
    /\ trace = <<>>
    /\ isOfficeInitialized = FALSE
    /\ status = Msg("")
    /\ isProcessing = FALSE
    /\ isMounted = TRUE
    /\ clicks = 0
    /\ run = [r \in Runs |-> IdleRun]
    /\ original = [body |-> body, header |-> header, mode |-> changeTrackingMode]
    /\ closure = [isProcessing |-> FALSE, isOfficeInitialized |-> FALSE]
    /\ \E server \in {"route", "layout"}, req \in Requests :
          endpoint = [server |-> server, req |-> <<req>>, resp |-> <<>>]

NextPost == Respond

SpecPost == InitPost /\ [][NextPost]_vars

TypeOK ==
    /\ wordApi \in {14, 15, 16}
    /\ changeTrackingMode \in {"off", "trackAll"}
    /\ isProcessing \in BOOLEAN
    /\ \A r \in Runs : run[r].pc \in SyncPcs \cup {"idle", "await_fetch", "returned", "thrown"}

(***************************************************************************)
(* Properties                                                              *)
(***************************************************************************)
\* a redaction run whose workflow returned normally
Returned(r) == run[r].pc = "returned" /\ run[r].kind = "redact"

Last(q) == q[Len(q)]

NonBlankSpans(r) ==
    {run[r].pii[k] : k \in {j \in 1..Len(run[r].pii) : ~IsBlank(run[r].pii[j])}}

\* every character a replacement put into the body is styled as a token
TokensStyled(b) ==
    \A i \in 1..Len(b) :
        b[i].src # 0 => b[i].hl = HighlightColor /\ b[i].col = FontColor

\* an occurrence of s at position i of the visible text that is made of
\* original characters only
UnredactedAt(b, s, i) ==
    /\ MatchAt(BodyText(b), s, i)
    /\ \A j \in 0..(Len(s) - 1) : Visible(b)[i + j].src = 0

\* C1 as claimed: after a run that completes without error, every
\* occurrence of every non-blank span has been replaced by a styled token
\* and no occurrence of the span remains in the body.
C1_NoOccurrenceRemains ==
    \A r \in Runs :
        Returned(r) =>
            /\ TokensStyled(body)
            /\ \A s \in NonBlankSpans(r) : ~Occurs(BodyText(body), s)

\* C1 amended: after a run that completes without error, every inserted
\* token is styled and every occurrence of a non-blank span that remains in
\* the body overlaps an inserted token; none is left in original text.
C1_NoUnredactedOccurrence ==
    \A r \in Runs :
        Returned(r) =>
            /\ TokensStyled(body)
            /\ \A s \in NonBlankSpans(r) :
                  \A i \in 1..Len(BodyText(body)) : ~UnredactedAt(body, s, i)

\* a run has returned after replacing two occurrences
C1_Witness ==
    \E r \in Runs :
        /\ Returned(r)
        /\ NonBlankSpans(r) # {}
        /\ Cardinality(Pending(body)) >= 2
        /\ \E i \in 1..Len(body) : body[i].tc = "del"

\* C2: in the order the queued commands run, a hyperlink is cleared with
\* tracking off, the switch to off is followed at once by the clear and the
\* clear by the switch back to trackAll, and the token is inserted and
\* styled with trackAll; so no hyperlink removal is a tracked change and
\* every inserted token is one.
C2_UnlinkUntrackedReplaceTracked ==
    /\ \A i \in 1..Len(trace) :
          /\ trace[i].op = "clearLink" => trace[i].mode = "off"
          /\ trace[i].op \in {"insertText", "setFont"} => trace[i].mode = "trackAll"
          /\ (trace[i].op = "setMode" /\ trace[i].mode = "off" /\ i < Len(trace))
                => trace[i + 1].op = "clearLink"
          /\ (trace[i].op = "clearLink" /\ i < Len(trace))
                => trace[i + 1] = [op |-> "setMode", mode |-> "trackAll"]
    /\ \A i \in 1..Len(body) :
          /\ body[i].link # "removedTracked"
          /\ body[i].src # 0 => body[i].tc = "ins"

\* the linked first character has been unlinked and replaced by a token
C2_Witness ==
    /\ \E i \in 1..Len(trace) : trace[i].op = "clearLink"
    /\ \E i \in 1..Len(trace) : trace[i].op = "insertText"
    /\ \E i \in 1..Len(body) :
          body[i].id = 1 /\ body[i].link = "none" /\ body[i].tc = "del"
    /\ \E i \in 1..Len(body) : body[i].src = 1 /\ body[i].tc = "ins"

\* the document a run started on had no text to process
StartedBlank(r) == IsBlank(BodyText(run[r].before[1].body))

\* C3 as claimed: a run on a document whose body is empty or white space
\* changes neither tracking mode, header nor body, and its last progress
\* message is the empty-document status.
C3_EmptyDocumentUntouched ==
    \A r \in Runs :
        (Returned(r) /\ StartedBlank(r)) =>
            /\ Last(run[r].progress) \in EmptyDocumentMsgs
            /\ body = run[r].before[1].body
            /\ header = run[r].before[1].header
            /\ changeTrackingMode = run[r].before[1].mode

\* the markers a reader finds in the header
Markers(h) == Cardinality({i \in 1..Len(h) : h[i].text = MARKER})

\* a run to which the classifier answered with the empty list
NothingFound(r) ==
    /\ Returned(r)
    /\ run[r].resp # <<>>
    /\ run[r].resp[1].ok
    /\ run[r].resp[1].pii = <<>>

NoSearchNoReplacement(r) ==
    /\ run[r].idx = 0
    /\ run[r].count = 0
    /\ body = run[r].before[1].body
    /\ \A i \in 1..Len(trace) : trace[i].op # "insertText"

AfterHeader == {"sync_body", "await_fetch", "sync_search", "sync_commit", "returned"}

\* C5: the header never holds the marker more than once, whatever the
\* number of runs, and once addConfidentialHeader has returned without
\* having caught an error it holds it exactly once.
C5_MarkerExactlyOnce ==
    /\ Markers(header) <= 1
    /\ \A r \in Runs :
          (run[r].kind = "redact" /\ run[r].pc \in AfterHeader
              /\ "header" \notin run[r].warnings)
          => Markers(header) = 1

\* the second run's addConfidentialHeader found the marker the first run
\* had inserted, and left the header as it was
C5_Witness ==
    \E r \in Runs :
        /\ clicks = 2
        /\ run[r].kind = "redact"
        /\ run[r].pc = "sync_body"
        /\ run[r].before[1].header = <<MarkerParagraph("ins")>>
        /\ header = <<MarkerParagraph("ins")>>

\* C6: when the loaded tracking mode is already trackAll, enableTrackChanges
\* goes straight on to the header: nothing is assigned, nothing queued, and
\* no second commit is awaited.
C6_NoAssignmentWhenTracking ==
    [][\A r \in Runs :
          (/\ run[r].pc = "sync_mode"
           /\ changeTrackingMode = "trackAll"
           /\ run'[r].pc \notin {"sync_mode", "thrown"})
          => /\ run'[r].pc = "sync_sections"
             /\ run'[r].queue = <<>>
             /\ changeTrackingMode' = "trackAll"
             /\ \A i \in 1..Len(trace') : trace'[i].op # "setMode"]_vars

\* enableTrackChanges has returned on a document that was tracking already
C6_Witness ==
    \E r \in Runs :
        /\ isSetSupported(15)
        /\ run[r].kind = "redact"
        /\ run[r].pc = "sync_sections"
        /\ run[r].before[1].mode = "trackAll"

\* a run whose classification request has failed
ClassificationFailed(r) ==
    /\ run[r].pc = "thrown"
    /\ run[r].resp # <<>>
    /\ ~run[r].resp[1].ok

\* C7: a non-2xx reply with a non-empty error field e makes the workflow
\* throw an error whose message is e, the fallback being used only for a
\* reply without one; and the handler of a pane that is still shown sets
\* the status text to exactly the message thrown.
C7_ErrorSurfacedVerbatim ==
    /\ [](\A r \in Runs :
            (ClassificationFailed(r) /\ ~run[r].resp[1].net) =>
                /\ run[r].resp[1].error # "" => run[r].err = run[r].resp[1].error
                /\ run[r].resp[1].error = "" => run[r].err = FallbackMessage(variant))
    /\ [][\A r \in Runs :
            (ClassificationFailed(r) /\ isMounted /\ run'[r].pc = "idle")
            => status' = Msg(run[r].err)]_vars

\* the pane shows the error field of the reply
C7_Witness ==
    /\ status = Msg("quota exceeded")
    /\ ~isProcessing
    /\ \A r \in Runs : run[r].pc = "idle"

\* C8: when the classification request fails nothing has been searched or
\* replaced, what the preparation committed is in place (tracking on unless
\* the host lacks it, the header present unless its step failed), and
\* neither the failure nor the handler that reports it changes the document.
C8_PreparationKept ==
    /\ [](\A r \in Runs :
            ClassificationFailed(r) =>
                /\ NoSearchNoReplacement(r)
                /\ changeTrackingMode = "trackAll" \/ "tracking" \in run[r].warnings
                /\ Markers(header) >= 1 \/ "header" \in run[r].warnings)
    /\ [][\A r \in Runs :
            (\/ run[r].pc = "await_fetch" /\ run'[r].pc = "thrown"
             \/ ClassificationFailed(r) /\ run'[r].pc = "idle")
            => UNCHANGED <<body, header, changeTrackingMode>>]_vars

\* the handler has reported a failed classification; tracking and header
\* set up by that run are still there
C8_Witness ==
    /\ status \in {Msg("quota exceeded"), Msg(NetworkError)}
    /\ \A r \in Runs : run[r].pc = "idle"
    /\ clicks = 1
    /\ original.mode = "off"
    /\ changeTrackingMode = "trackAll"
    /\ original.header = <<>>
    /\ header = <<MarkerParagraph("ins")>>

\* C9: on a host with WordApi 1.6, once rejectAllChanges has returned the
\* body text is the text before redaction, no token and no tracked change
\* is left in the body, and the tracked header insertion is gone.
C9_RejectRestores ==
    \A r \in Runs :
        (run[r].pc = "returned" /\ run[r].kind = "reject") =>
            /\ BodyText(body) = BodyText(original.body)
            /\ \A i \in 1..Len(body) : body[i].src = 0 /\ body[i].tc = "none"
            /\ \A i \in 1..Len(header) : header[i].tc # "ins"
            /\ header = original.header

\* rejectAllChanges has returned on a document that held a redaction token
\* and a tracked header
C9_Witness ==
    \E r \in Runs :
        /\ run[r].pc = "returned"
        /\ run[r].kind = "reject"
        /\ run[r].before[1].header = <<MarkerParagraph("ins")>>
        /\ \E i \in 1..Len(run[r].before[1].body) :
              run[r].before[1].body[i].src # 0
        /\ \E i \in 1..Len(run[r].before[1].body) :
              run[r].before[1].body[i].tc = "del"

\* C10: on a host without WordApi 1.6 rejectAllChanges throws the message
\* that tells the user to reject manually, with nothing queued and the
\* document as it was; the handler of a pane that is still shown displays
\* that message and clears the processing flag.
C10_RejectUnsupported ==
    /\ [](\A r \in Runs :
            (run[r].kind = "reject" /\ ~isSetSupported(16)) =>
                /\ run[r].pc = "thrown"
                /\ run[r].err = RejectUnsupported
                /\ run[r].queue = <<>>
                /\ body = run[r].before[1].body
                /\ header = run[r].before[1].header
                /\ changeTrackingMode = run[r].before[1].mode)
    /\ [][\A r \in Runs :
            (run[r].kind = "reject" /\ ~isSetSupported(16) /\ isMounted
                /\ run'[r].pc = "idle")
            => /\ status' = Msg(RejectUnsupported)
               /\ isProcessing' = FALSE
               /\ UNCHANGED <<body, header, changeTrackingMode>>]_vars

\* the pane shows the manual-rejection message and is idle again
C10_Witness ==
    /\ ~isSetSupported(16)
    /\ status = Msg(RejectUnsupported)
    /\ ~isProcessing
    /\ \A r \in Runs : run[r].pc = "idle"

\* a Word.run that has been started and has not finished
InProgress(r) == run[r].pc \notin {"idle", "returned", "thrown"}

\* C11 as claimed: whatever the sequence of clicks, at most one Word.run
\* (redaction or revert) is in progress at any time.
C11_OneRunAtATime ==
    Cardinality({r \in Runs : InProgress(r)}) <= 1

\* the commands of a batch that assign changeTrackingMode
ModeWrites(q) == {i \in 1..Len(q) : q[i].op = "setMode"}

\* C12 as claimed: on a host without WordApi 1.5 a redaction run has warned
\* and neither queues nor commits an assignment of changeTrackingMode at
\* any step, the redaction loop included.
C12_TrackingNeverTouched ==
    ~isSetSupported(15) =>
        \A r \in Runs :
            run[r].kind = "redact" =>
                /\ "tracking" \in run[r].warnings
                /\ ModeWrites(run[r].queue) = {}
                /\ ModeWrites(trace) = {}

\* where a redaction run is while addConfidentialHeader is at work
InHeader == {"sync_sections", "sync_hdrcheck", "sync_hdrinsert"}

SuccessLines ==
    {Msg("Document secured!"), Msg("Changes rejected, document restored.")}

\* C15: while the pane stays mounted and the awaited calls come back, the
\* processing flag a run has set is eventually reset, and the step that
\* ends a run, whether it succeeded or threw, clears the flag and sets the
\* status text to the success line or to the message of the error.
C15_RunLeavesPaneInteractive ==
    /\ isProcessing ~> (~isProcessing /\ \A r \in Runs : run[r].pc = "idle")
    /\ [][\A r \in Runs :
            (run[r].pc # "idle" /\ run'[r].pc = "idle") =>
                /\ ~isProcessing'
                /\ run[r].pc = "returned" => status' \in SuccessLines
                /\ run[r].pc = "thrown" => status' = Msg(run[r].err)]_vars

\* a run that threw has been reported and the pane accepts clicks again
C15_Witness ==
    /\ clicks > 0
    /\ ~isProcessing
    /\ \A r \in Runs : run[r].pc = "idle"
    /\ status = Msg(SyncError)
    /\ Rendered

\* the messages that open a run, up to the one that announces the request
Preamble(v) == <<MsgSetup(v), MsgReading, MsgIdentifying(v)>>

\* the messages that close a run that has redacted
CompletionMsgs(v, n) == {MsgAccomplished(v, n), MsgDone}

\* what onProgress was called with between the preamble and the completion
LoopMsgs(r) ==
    LET p == run[r].progress
        n == Len(run[r].pii)
    IN  SelectSeq(SubSeq(p, Len(Preamble(variant)) + 1, Len(p)),
                  LAMBDA m : m \notin CompletionMsgs(variant, n))

\* the spans the loop has taken up so far: the non-blank ones up to idx
SpansTaken(r) ==
    {i \in 1..Len(run[r].pii) : i <= run[r].idx /\ ~IsBlank(run[r].pii[i])}

\* a redaction run that has entered the loop over the classifier's spans
InLoop(r) ==
    /\ run[r].kind = "redact"
    /\ run[r].pc \in {"sync_search", "sync_commit", "returned"}
    /\ run[r].pii # <<>>

\* C16 as claimed: in the redaction loop onProgress has been called once
\* for each span taken up so far, however many occurrences the span has, and
\* the counter of the k-th of these messages is k.
C16_ProgressOncePerSpan ==
    \A r \in Runs :
        InLoop(r) =>
            /\ Len(LoopMsgs(r)) = Cardinality(SpansTaken(r))
            /\ \A k \in 1..Len(LoopMsgs(r)) : LoopMsgs(r)[k].count = k

\* a classifier result of n >= 1 non-blank, pairwise distinct spans
DistinctNonBlank(l) ==
    /\ l # <<>>
    /\ \A i \in 1..Len(l) : ~IsBlank(l[i])
    /\ \A i, j \in 1..Len(l) : i # j => l[i] # l[j]

\* C17 as claimed: a successful run on n non-blank pairwise distinct spans
\* has called onProgress with the preamble, then n pairwise distinct
\* processing messages, then the completion message; and the completion
\* message is reported only by a run whose final commit has resolved.
C17_ProgressSequence ==
    \A r \in Runs :
        /\ (Returned(r) /\ DistinctNonBlank(run[r].pii)) =>
              LET p == run[r].progress
                  n == Len(run[r].pii)
                  k == Len(Preamble(variant))
              IN  /\ Len(p) > k + n
                  /\ SubSeq(p, 1, k) = Preamble(variant)
                  /\ \A i, j \in (k + 1)..(k + n) : i # j => p[i] # p[j]
                  /\ \A i \in (k + 1)..(k + n) :
                        p[i] \notin CompletionMsgs(variant, n)
                  /\ p[k + n + 1] = MsgAccomplished(variant, n)
        /\ (\E i \in 1..Len(run[r].progress) :
                run[r].progress[i] = MsgAccomplished(variant, Len(run[r].pii)))
           => run[r].pc = "returned"

\* where a run is between its request and its end
AfterRequest == {"await_fetch", "sync_search", "sync_commit"}

\* C18: a run sends at most one request to /api/redact: one once it has
\* read a non-empty body, none when it returned on an empty one; a request
\* is sent only by the step that reads the body, and a run that has thrown
\* sends none, so a failed request is never repeated.
C18_OneRequestNoRetry ==
    /\ [](\A r \in Runs :
            /\ run[r].fetches <= 1
            /\ (run[r].kind = "redact" /\ run[r].pc \in AfterRequest)
               => run[r].fetches = 1
            /\ ClassificationFailed(r) => run[r].fetches = 1
            /\ Returned(r) =>
                  run[r].fetches =
                      IF IsBlank(BodyText(run[r].before[1].body)) THEN 0 ELSE 1)
    /\ [][\A r \in Runs :
            /\ run'[r].fetches > run[r].fetches => run[r].pc = "sync_body"
            /\ run[r].pc = "thrown" => run'[r].pc \in {"thrown", "idle"}
            /\ run[r].pc = "await_fetch" => run'[r].pc # "sync_body"]_vars

\* a request that failed on the network has ended the run
C18_Witness ==
    \E r \in Runs :
        /\ ClassificationFailed(r)
        /\ run[r].resp[1].net
        /\ run[r].fetches = 1

\* the endpoint has answered a request the upstream model replied to
Answered ==
    /\ endpoint.resp # <<>>
    /\ endpoint.req[1].json
    /\ endpoint.req[1].apiKey
    /\ endpoint.req[1].upstream = "ok"

\* what the handler's clean-up leaves of the reply is a JSON array
ReplyIsArray ==
    LET e == JSONparse(Cleaned(endpoint.server, endpoint.req[1].rawText))
    IN  e.ok /\ IsArray(e.v)

\* C19 as claimed: when the reply of the upstream model is not a valid JSON
\* array, be it unparseable or valid JSON of another type, the endpoint
\* answers with status 500 and an error field.
C19_MalformedReplyIs500 ==
    (Answered /\ ~ReplyIsArray) =>
        /\ endpoint.resp[1].status = 500
        /\ endpoint.resp[1].error # ""

\* C20 as claimed: the pii field of every 200 response is an array whose
\* elements are all strings.
C20_PiiIsStringArray ==
    (endpoint.resp # <<>> /\ endpoint.resp[1].status = 200) =>
        /\ IsArray(endpoint.resp[1].pii)
        /\ \A i \in 1..Len(endpoint.resp[1].pii.items) :
              endpoint.resp[1].pii.items[i].kind = "string"

\* the per-span progress messages a run has reported
PerSpanMsgs(r) ==
    SelectSeq(run[r].progress, LAMBDA m : m.text = MsgProtecting(0, 0).text)

\* the text a queued range covers in the body
RangeText(rng) == CellText(SelectSeq(body, LAMBDA c : c.id \in RangeIds(rng)))

\* C21: a span that is empty or white space only is skipped: no search is
\* awaited for it, the searches issued are as many as the non-blank spans
\* taken up so far, no per-span progress message is reported beyond those,
\* and every replacement queued covers text that is not blank.
C21_BlankSpanSkipped ==
    \A r \in Runs :
        run[r].kind = "redact" =>
            /\ run[r].pc = "sync_search" => ~IsBlank(run[r].pii[run[r].idx])
            /\ run[r].count = Cardinality(SpansTaken(r))
            /\ Len(PerSpanMsgs(r)) <= Cardinality(SpansTaken(r))
            /\ \A k \in 1..Len(PerSpanMsgs(r)) : PerSpanMsgs(r)[k].count = k
            /\ \A i \in 1..Len(run[r].queue) :
                  run[r].queue[i].op = "insertText"
                  => ~IsBlank(RangeText(run[r].queue[i].rng))

\* a run given a blank span before a span that occurs has returned: one
\* search, the occurrence replaced, the white space of the body untouched
C21_Witness ==
    \E r \in Runs :
        /\ Returned(r)
        /\ Len(run[r].pii) = 2
        /\ IsBlank(run[r].pii[1])
        /\ run[r].count = 1
        /\ \E i \in 1..Len(body) : body[i].src # 0
        /\ \E i \in 1..Len(body) : body[i].ch = " " /\ body[i].tc = "none"

\* the sync of this step has run every command of batch q, in order
Committed(q) ==
    /\ Len(trace') = Len(q)
    /\ \A i \in 1..Len(q) : trace'[i].op = q[i].op

\* the run has reported that the redaction is complete
Completed(rec) ==
    \E i \in 1..Len(rec.progress) :
        rec.progress[i] = MsgAccomplished(variant, Len(rec.pii))

\* C22: the loop leaves the search of a span only through a commit that
\* runs the whole batch queued so far, and the results it then iterates are
\* those of the document that commit has left; the final commit runs every
\* replacement still queued before the completion message is reported, and
\* a run that has reported completion has nothing left in its queue.
C22_CommitBeforeIterateAndReport ==
    /\ [](\A r \in Runs :
            (run[r].kind = "redact" /\ Completed(run[r])) =>
                run[r].pc = "returned" /\ run[r].queue = <<>>)
    /\ [][\A r \in Runs :
            /\ (run[r].pc = "sync_search"
                    /\ run'[r].pc \in {"sync_search", "sync_commit"}
                    /\ run'[r].idx > run[r].idx)
               => /\ Committed(run[r].queue)
                  /\ run'[r].queue =
                        FoundCmds(SearchRanges(body', run[r].pii[run[r].idx]))
            /\ (run[r].pc = "sync_commit" /\ run'[r].pc = "returned")
               => Committed(run[r].queue) /\ Completed(run'[r])
            /\ (Completed(run'[r]) /\ ~Completed(run[r]))
               => run[r].pc = "sync_commit"
            /\ (run[r].kind = "redact" /\ run'[r].queue # run[r].queue
                    /\ \E i \in 1..Len(run'[r].queue) :
                          run'[r].queue[i].op = "insertText")
               => run[r].pc = "sync_search"]_vars

\* the final commit has run the replacements of the last span, and the run
\* has reported completion
C22_Witness ==
    \E r \in Runs :
        /\ Returned(r)
        /\ Completed(run[r])
        /\ run[r].count = 2
        /\ \E i \in 1..Len(trace) : trace[i].op = "insertText"

\* C23 as claimed: no failure of a call on the document is swallowed inside
\* the workflow: a run never carries on after a commit of its header step
\* has failed, and the step at which a commit fails leaves the run thrown.
C23_FailuresPropagate ==
    /\ [](\A r \in Runs :
            run[r].kind = "redact" => "header" \notin run[r].warnings)
    /\ [][\A r \in Runs :
            (run[r].pc \in SyncPcs /\ run'[r].pc # run[r].pc
                 /\ ~Committed(run[r].queue))
            => run'[r].pc = "thrown"]_vars

\* the span whose search results the queued replacements come from: the
\* last non-blank span before the one at idx
PrevSpan(r) ==
    LET before == {i \in SpansTaken(r) : i < run[r].idx}
    IN  CHOOSE i \in before : \A j \in before : j <= i

\* a cell a replacement has inserted
Inserted(b, id) == \E i \in 1..Len(b) : b[i].id = id /\ b[i].src # 0

\* span s occurs at position i of the visible text, inside inserted text only
RedactedAt(b, s, i) ==
    /\ MatchAt(BodyText(b), s, i)
    /\ \A j \in 0..(Len(s) - 1) : Visible(b)[i + j].src # 0

\* a queued replacement whose range lies inside text a replacement inserted
ReplacesToken(q) ==
    \E k \in 1..Len(q) :
        /\ q[k].op = "insertText"
        /\ \A id \in RangeIds(q[k].rng) : Inserted(body, id)

\* C24: the search of a span runs on the document the replacements queued
\* for the earlier spans have left, so whenever the span matches, case
\* folded, inside text a replacement has inserted, the results iterated
\* hold a range inside that text and its replacement is queued.
C24_LaterSpanMatchesToken ==
    \A r \in Runs :
        (/\ run[r].kind = "redact"
         /\ run[r].pc \in {"sync_search", "sync_commit"}
         /\ \E i \in SpansTaken(r) : i < run[r].idx)
        => ((\E i \in 1..Len(BodyText(body)) :
                RedactedAt(body, run[r].pii[PrevSpan(r)], i))
            => ReplacesToken(run[r].queue))

\* a token inserted for the first span has been replaced again for the
\* second: the run has returned and the body holds a token whose range
\* started at a cell of an earlier token
C24_Witness ==
    \E r \in Runs :
        /\ Returned(r)
        /\ run[r].count = 2
        /\ \A i \in 1..Len(run[r].before[1].body) :
              run[r].before[1].body[i].src = 0
        /\ \E i \in 1..Len(body) :
              /\ body[i].src > Len(run[r].before[1].body)
              /\ body[i].tc = "ins"

\* the hyperlinks of the body, cell by cell
Links(b) == [i \in 1..Len(b) |-> b[i].link]

\* C25 as claimed: once rejectAllChanges has returned on a host with
\* WordApi 1.6 the document is what it was when it was opened: body and
\* header text, the hyperlink of every character, and the tracking mode.
C25_RejectRestoresLinksAndMode ==
    \A r \in Runs :
        (run[r].pc = "returned" /\ run[r].kind = "reject") =>
            /\ BodyText(body) = BodyText(original.body)
            /\ header = original.header
            /\ Links(body) = Links(original.body)
            /\ changeTrackingMode = original.mode

\* the spans of a classifier result that are searched: the non-blank ones
Searched(l) == {i \in 1..Len(l) : ~IsBlank(l[i])}

\* C26 as claimed: the item count a completed run reports is the number of
\* spans it has searched, and the last running counter shown equals the
\* total shown with it, blank spans in the classifier result or not.
C26_CountIsItemsProcessed ==
    \A r \in Runs :
        (Returned(r) /\ Completed(run[r])) =>
            /\ \A i \in 1..Len(run[r].progress) :
                  run[r].progress[i].text = MsgAccomplished(variant, 0).text
                  => run[r].progress[i].total = Cardinality(Searched(run[r].pii))
            /\ PerSpanMsgs(r) # <<>>
                  => Last(PerSpanMsgs(r)).count = Last(PerSpanMsgs(r)).total

\* where a redaction run is once enableTrackChanges has returned
AfterEnable == InHeader \cup {"sync_body", "await_fetch", "sync_search", "sync_commit"}

\* C27 as claimed: on a host with WordApi 1.5, from the moment
\* enableTrackChanges has returned the tracking mode is trackAll before and
\* after every step of the run, the step at which a commit throws included,
\* and the handler that ends the run leaves the mode as it is.
C27_TrackAllAtCommitBoundaries ==
    [][\A r \in Runs :
          /\ (isSetSupported(15) /\ run[r].kind = "redact"
                  /\ run[r].pc \in AfterEnable)
             => /\ changeTrackingMode = "trackAll"
                /\ changeTrackingMode' = "trackAll"
          /\ (run[r].kind = "redact" /\ run[r].pc \in {"returned", "thrown"})
             => changeTrackingMode' = changeTrackingMode]_vars

\* position i of text t lies inside an occurrence of span s
InsideOccurrence(t, s, i) ==
    \E p \in 1..Len(t) : MatchAt(t, s, p) /\ p <= i /\ i < p + Len(s)

\* an original cell that is no longer part of the text
Replaced(b, id) == \A i \in 1..Len(b) : b[i].id = id => b[i].tc = "del"

\* C28 as claimed: after a successful run every character of the body the
\* run started on that lay inside an occurrence of a non-blank span has been
\* replaced, also when the spans overlap or contain one another.
C28_OverlappingSpansRedacted ==
    \A r \in Runs :
        (Returned(r) /\ Completed(run[r])) =>
            LET b == Visible(run[r].before[1].body)
            IN  \A i \in 1..Len(b) :
                    (\E s \in NonBlankSpans(r) : InsideOccurrence(CellText(b), s, i))
                    => Replaced(body, b[i].id)

\* the messages that report a run that had nothing to redact
InformationalMsgs ==
    EmptyDocumentMsgs \cup {MsgNothing("route"), MsgNothing("lib")}

\* a run that returned early: on an empty document or an empty result
EndedEarly(r) ==
    /\ Returned(r)
    /\ \E i \in 1..Len(run[r].progress) : run[r].progress[i] \in InformationalMsgs

\* C29 as claimed: when a run has ended early without redacting anything,
\* the status text the pane shows once the handler is through is the
\* informational outcome the workflow reported, not a success line.
C29_EarlyEndKeepsInformationalStatus ==
    [][\A r \in Runs :
          (EndedEarly(r) /\ isMounted /\ run'[r].pc = "idle")
          => status' \in InformationalMsgs]_vars

\* a run that has thrown after its classification request succeeded
ThrownAfterClassification(r) ==
    /\ run[r].kind = "redact"
    /\ run[r].pc = "thrown"
    /\ run[r].resp # <<>>
    /\ run[r].resp[1].ok

\* the ranges replaced so far: the first cells of the ranges of the tokens
Tokens(b) == {b[i].src : i \in 1..Len(b)} \ {0}

\* C30 as claimed: when formatAndRedactDocument throws after the
\* classification has succeeded, no body text has been replaced: the text
\* is what it was when the run started and holds no token of this run.
C30_AllSpansOrNone ==
    \A r \in Runs :
        ThrownAfterClassification(r) =>
            /\ BodyText(body) = BodyText(run[r].before[1].body)
            /\ Tokens(body) \subseteq Tokens(run[r].before[1].body)

====
